---------------------------- MODULE Spec2Model ----------------------------
(***************************************************************************)
(* A model of TWapp.py: the indicator-and-signal pipeline                  *)
(* (calculate_technical_indicators), the batch scan (scan_market_summary)  *)
(* and the end-of-day snapshot path of the page script (load_snapshot,     *)
(* save_snapshot, the market-status flags and the auto-save block).        *)
(*                                                                         *)
(* Numbers.  The program computes in IEEE doubles.  The model computes in  *)
(* integers: a price is a whole number of ticks, a moving average is kept  *)
(* in ticks with floor division, CMF is kept in 1/10000 (so -0.05 is -500  *)
(* and -0.2 is -2000).  A missing value is NaN, and a comparison with NaN  *)
(* is false, as in pandas.                                                 *)
(***************************************************************************)
EXTENDS Integers, Sequences, FiniteSets, TLC

VARIABLES
    \* --- calculate_technical_indicators ---
    df,          \* the frame handed to calculate_technical_indicators
    res,         \* what it returned: [df, err]
    called,      \* whether it has returned
    \* --- scan_market_summary ---
    data,        \* what yf.download returned for the batch
    summary,     \* what scan_market_summary returned
    scanned,     \* whether it has returned
    \* --- the page script and the snapshot file ---
    clock,       \* the wall clock, in US/Eastern: [day, wd, hour, minute]
    tz,          \* hours the server's local zone is ahead of US/Eastern
    file,        \* SNAPSHOT_FILE: [state, data]
    pc,          \* where each session's script run stands
    now_est,     \* line 179, per session
    is_market_open,      \* line 180
    is_closing_window,   \* line 181
    status_text,         \* line 198
    selected_ticker,     \* line 189
    error,       \* line 203: the error of get_analysis_data, or None
    last_close,  \* line 208: last['Close']
    saved,       \* line 214: what load_snapshot returned
    record,      \* line 56: the record save_snapshot builds
    all_data,    \* line 62-66: what save_snapshot read
    renders,     \* script runs started
    pre_file,    \* history: the records of the file when save_snapshot was entered
    saves        \* history: calls of save_snapshot per <<ticker, trading day>>

calcVars == <<df, res, called>>
scanVars == <<data, summary, scanned>>
sessVars == <<pc, now_est, is_market_open, is_closing_window, status_text,
              selected_ticker, error, last_close, saved, record, all_data, renders,
              pre_file, saves>>
snapVars == <<clock, tz, file, sessVars>>
vars == <<df, res, called, data, summary, scanned, clock, tz, file, pc, now_est,
          is_market_open, is_closing_window, status_text, selected_ticker, error,
          last_close, saved, record, all_data, renders, pre_file, saves>>

-----------------------------------------------------------------------------
(* Values *)

\* A float that is not a number; no series of the model reaches this value.
NaN == -(2^30)

\* Python's None, where the program returns it in place of a string.
None == "None"

\* The error string of line 74 (a CJK literal in the source, "data insufficient").
ERR_INSUFFICIENT == "insufficient data"

\* Line 74: the least number of bars calculate_technical_indicators accepts.
MIN_BARS == 50

\* The longest series of the model.
MaxLen == 61

Gt(a, b) == a # NaN /\ b # NaN /\ a > b
Lt(a, b) == a # NaN /\ b # NaN /\ a < b

Min(a, b) == IF a < b THEN a ELSE b
Max(a, b) == IF a > b THEN a ELSE b

RECURSIVE SumSeq(_, _, _)
SumSeq(x, lo, hi) == IF lo > hi THEN 0 ELSE x[hi] + SumSeq(x, lo, hi - 1)

-----------------------------------------------------------------------------
(* The library calls of lines 75-95, as pandas / pandas_ta compute them *)

\* Series.ffill: a missing value takes the last value before it.
RECURSIVE ffill_from(_, _)
ffill_from(x, acc) ==
    LET i == Len(acc) + 1
    IN  IF i > Len(x) THEN acc
        ELSE ffill_from(x, Append(acc,
                IF x[i] # NaN THEN x[i] ELSE IF i = 1 THEN NaN ELSE acc[i - 1]))

ffill_col(x) == ffill_from(x, <<>>)

ffill(d) == [c \in DOMAIN d |-> ffill_col(d[c])]

\* One bar of ta.ema(x, length=n): undefined for the first n-1 bars, seeded
\* with the mean of the first n, then EMA_t = a*x_t + (1-a)*EMA_{t-1} with
\* a = 2/(n+1).
ema_step(x, n, i, prev) ==
    IF i < n THEN NaN
    ELSE IF i = n THEN SumSeq(x, 1, n) \div n
    ELSE (2 * x[i] + (n - 1) * prev) \div (n + 1)

RECURSIVE ema_from(_, _, _)
ema_from(x, n, acc) ==
    LET i == Len(acc) + 1
    IN  IF i > Len(x) THEN acc
        ELSE ema_from(x, n,
                Append(acc, ema_step(x, n, i, IF i = 1 THEN NaN ELSE acc[i - 1])))

\* ta.ema(x, length=n) on a series without gaps.
ema(x, n) == ema_from(x, n, <<>>)

\* ta.macd(close, 12, 26, 9), the histogram column: line = EMA12 - EMA26,
\* signal = EMA9 of the line from its first valid bar, hist = line - signal.
RECURSIVE sub_from(_, _, _)
sub_from(a, b, acc) ==
    LET i == Len(acc) + 1
    IN  IF i > Len(a) THEN acc
        ELSE sub_from(a, b, Append(acc,
                IF a[i] = NaN \/ b[i] = NaN THEN NaN ELSE a[i] - b[i]))

RECURSIVE pad_from(_, _, _)
pad_from(x, k, acc) ==
    LET i == Len(acc) + 1
    IN  IF i > Len(x) + k THEN acc
        ELSE pad_from(x, k, Append(acc, IF i <= k THEN NaN ELSE x[i - k]))

macd_hist(close) ==
    LET line == sub_from(ema(close, 12), ema(close, 26), <<>>)
        sig  == ema(SubSeq(line, 26, Len(line)), 9)
    IN  sub_from(line, pad_from(sig, 25, <<>>), <<>>)

\* ta.cmf(high, low, close, volume, 20): the money-flow volume of a bar is
\* (2C - H - L) * V / (H - L), taken as 0 when H = L; CMF is the 20-bar sum
\* of it over the 20-bar sum of volume (0/0 is NaN).  In 1/10000.
RECURSIVE ad_from(_, _, _, _, _)
ad_from(high, low, close, volume, acc) ==
    LET i == Len(acc) + 1
    IN  IF i > Len(close) THEN acc
        ELSE ad_from(high, low, close, volume, Append(acc,
                IF high[i] = low[i] THEN 0
                ELSE ((2 * close[i] - high[i] - low[i]) * volume[i])
                        \div (high[i] - low[i])))

RECURSIVE ratio_from(_, _, _, _)
ratio_from(num, den, n, acc) ==
    LET i == Len(acc) + 1
    IN  IF i > Len(num) THEN acc
        ELSE ratio_from(num, den, n, Append(acc,
                IF i < n THEN NaN
                ELSE LET v == SumSeq(den, i - n + 1, i)
                     IN  IF v = 0 THEN NaN
                         ELSE (SumSeq(num, i - n + 1, i) * 10000) \div v))

cmf(high, low, close, volume) ==
    ratio_from(ad_from(high, low, close, volume, <<>>), volume, 20, <<>>)

\* ta.sma(x, n)
RECURSIVE sma_from(_, _, _)
sma_from(x, n, acc) ==
    LET i == Len(acc) + 1
    IN  IF i > Len(x) THEN acc
        ELSE sma_from(x, n, Append(acc,
                IF i < n THEN NaN ELSE SumSeq(x, i - n + 1, i) \div n))

sma(x, n) == sma_from(x, n, <<>>)

\* Series.shift(1), read at bar i
shift1(x, i) == IF i = 1 THEN NaN ELSE x[i - 1]

-----------------------------------------------------------------------------
(* The page script, lines 178-217, and the snapshot file, lines 47-69 *)

Sessions == {"s1", "s2"}

\* Two of TARGET_TICKERS (lines 41-45).
SnapTickers == {"AAPL", "NVDA"}

\* The closes an analysis may end on.
Closes == {100}

\* The last day of the model's calendar; the first is day 0.
MaxDay == 1

\* The script runs that may start, over all sessions.
MaxRenders == 3

\* The instants of a day the clock stops at, <<hour, minute>>, in order.
Times == << <<15, 54>>, <<15, 55>>, <<16, 0>> >>

\* The server's local zone, in hours ahead of US/Eastern: the same zone, or
\* Asia/Taipei against Eastern standard time.
TzOffsets == {0, 13}

Absent == [present |-> FALSE]
NoRecords == [t \in SnapTickers |-> Absent]
NoTime == [day |-> 0, wd |-> 0, hour |-> 0, minute |-> 0]

\* datetime.datetime.now() of lines 57-58: the naive local time of the server.
local_day(c, off) == c.day + (IF c.hour + off >= 24 THEN 1 ELSE 0)
local_hour(c, off) == (c.hour + off) % 24

\* strftime('%Y-%m-%d') of a US/Eastern time (line 215) and of a local time
\* (line 57): a date is the number of its day.
est_date(c) == c.day
local_date(c, off) == local_day(c, off)

\* Lines 47-53.
load_snapshot(f, t) ==
    IF f.state # "json" THEN Absent       \* no file, or json.load raised
    ELSE f.data[t]

\* Lines 56-61.
new_record(c, off, price) ==
    [present     |-> TRUE,
     date        |-> local_date(c, off),
     timestamp   |-> <<local_date(c, off), local_hour(c, off), c.minute>>,
     close_price |-> price,
     flow_data   |-> "flow"]

\* Lines 62-66.
read_all(f) == IF f.state = "json" THEN f.data ELSE NoRecords

\* A plausible slip: the file is written with the new record alone.
dumped_alone(all, t, rec) == [x \in SnapTickers |-> IF x = t THEN rec ELSE Absent]

\* Lines 67-68: what json.dump writes.
dumped(all, t, rec) == [all EXCEPT ![t] = rec]

\* Line 180: `A and B or C` is (A and B) or C.
market_open(c) ==
    (c.wd < 5 /\ 9 <= c.hour /\ c.hour < 16) \/ (c.hour = 16 /\ c.minute = 0)

\* Line 181.
closing_window(c) == c.hour = 15 /\ c.minute >= 55

\* Line 198 (CJK literals in the source).
status_of(closing, open) ==
    IF closing THEN "closing save" ELSE IF open THEN "market open" ELSE "market closed"

\* A plausible slip: the guard looks at the file as it is now, as a write
\* under a lock would.
guard_passes_fresh(sv, f, t, c) ==
    LET cur == load_snapshot(f, t)
    IN  ~cur.present \/ cur.date # est_date(c)

\* Line 215: the guard reads what load_snapshot returned at line 214.
guard_passes(sv, f, t, c) == ~sv.present \/ sv.date # est_date(c)

\* What a script run holds; a run that ends holds nothing.
locals == <<now_est, is_market_open, is_closing_window, status_text,
            selected_ticker, error, last_close, saved, record, all_data, pre_file>>

NoLocals ==
    /\ now_est = [s \in Sessions |-> NoTime]
    /\ is_market_open = [s \in Sessions |-> FALSE]
    /\ is_closing_window = [s \in Sessions |-> FALSE]
    /\ status_text = [s \in Sessions |-> ""]
    /\ selected_ticker = [s \in Sessions |-> "NVDA"]
    /\ error = [s \in Sessions |-> None]
    /\ last_close = [s \in Sessions |-> 0]
    /\ saved = [s \in Sessions |-> Absent]
    /\ record = [s \in Sessions |-> Absent]
    /\ all_data = [s \in Sessions |-> NoRecords]
    /\ pre_file = [s \in Sessions |-> NoRecords]

SnapIdle ==
    /\ clock = [day |-> 0, wd |-> 0, hour |-> Times[1][1], minute |-> Times[1][2]]
    /\ tz = 0
    /\ file = [state |-> "absent", data |-> NoRecords]
    /\ pc = [s \in Sessions |-> "idle"]
    /\ NoLocals
    /\ renders = 0
    /\ saves = [k \in SnapTickers \X (0..MaxDay) |-> 0]

-----------------------------------------------------------------------------
(* calculate_technical_indicators, lines 72-114 *)

\* A plausible slip: the flow clause of BUY reads the SELL threshold.
buy_cond_loose(d, i) ==
    /\ Gt(d.Close[i], d.EMA_8[i])
    /\ Gt(d.EMA_8[i], d.EMA_21[i])
    /\ Gt(d.MACD_Hist[i], 0)
    /\ Gt(d.MACD_Hist[i], shift1(d.MACD_Hist, i))
    /\ Gt(d.CMF[i], -2000)

\* A plausible slip: >= in place of > throughout the BUY conjunction.
buy_cond_ge(d, i) ==
    /\ d.Close[i] # NaN /\ d.EMA_8[i] # NaN /\ d.Close[i] >= d.EMA_8[i]
    /\ d.EMA_21[i] # NaN /\ d.EMA_8[i] >= d.EMA_21[i]
    /\ d.MACD_Hist[i] # NaN /\ d.MACD_Hist[i] >= 0
    /\ shift1(d.MACD_Hist, i) # NaN /\ d.MACD_Hist[i] >= shift1(d.MACD_Hist, i)
    /\ Gt(d.CMF[i], -500)

\* Lines 101-107: the BUY conjunction of bar i.
buy_cond(d, i) ==
    /\ Gt(d.Close[i], d.EMA_8[i])
    /\ Gt(d.EMA_8[i], d.EMA_21[i])
    /\ Gt(d.MACD_Hist[i], 0)
    /\ Gt(d.MACD_Hist[i], shift1(d.MACD_Hist, i))
    /\ Gt(d.CMF[i], -500)

\* A plausible slip: the SELL pass forgets the flow clause.
sell_cond_noflow(d, i) ==
    \/ Lt(d.Close[i], d.EMA_21[i])
    \/ Lt(d.MACD_Hist[i], 0)

\* Line 111: the SELL disjunction of bar i.
sell_cond(d, i) ==
    \/ Lt(d.Close[i], d.EMA_21[i])
    \/ Lt(d.MACD_Hist[i], 0)
    \/ Lt(d.CMF[i], -2000)

\* Lines 108-112: np.select labels BUY or HOLD, then the SELL pass overwrites.
RECURSIVE signal_from(_, _)
signal_from(d, acc) ==
    LET i == Len(acc) + 1
        first == IF buy_cond(d, i) THEN "BUY" ELSE "HOLD"
    IN  IF i > Len(d.Close) THEN acc
        ELSE signal_from(d, Append(acc, IF sell_cond(d, i) THEN "SELL" ELSE first))

signal(d) == signal_from(d, <<>>)

\* A plausible slip: <= in place of <.
insufficient_le(d) == Len(d.Close) <= MIN_BARS

\* Line 74: the guard of the early return.
insufficient(d) == Len(d.Close) < MIN_BARS

\* Lines 75-97: the derived columns.  MFI, ATR and Stop_Loss are attached by
\* the program as well; no rule of lines 99-112 reads them and the model
\* does not carry their values.
indicators(d) ==
    LET f == ffill(d)
    IN  [Close      |-> f.Close,
         High       |-> f.High,
         Low        |-> f.Low,
         Volume     |-> f.Volume,
         EMA_8      |-> ema(f.Close, 8),
         EMA_21     |-> ema(f.Close, 21),
         MACD_Hist  |-> macd_hist(f.Close),
         CMF        |-> cmf(f.High, f.Low, f.Close, f.Volume),
         Vol_SMA_10 |-> sma(f.Volume, 10)]

calculate_technical_indicators(d) ==
    IF insufficient(d) THEN [df |-> d, err |-> ERR_INSUFFICIENT]
    ELSE LET e == indicators(d)
         IN  [df  |-> [c \in DOMAIN e \cup {"Signal"} |->
                          IF c = "Signal" THEN signal(e) ELSE e[c]],
              err |-> None]

-----------------------------------------------------------------------------
(* The input frames of the model: a price path of two straight legs, a bar  *)
(* range placed around the close on each leg, constant volume, and at most   *)
(* one missing bar.                                                          *)

Lens == {MIN_BARS - 1, MIN_BARS, 60, MaxLen}

\* <<High - Close, Close - Low>> of a bar
Ranges == {<<0, 0>>, <<20, 0>>, <<0, 20>>, <<11, 9>>}

\* Paths that move: a first leg, then a last leg of `back` bars.
Moving ==
    [len  : Lens,
     p0   : {10000},
     s1   : {-30, 0},
     s2   : {-60, 0, 60},
     back : {3, 12},
     r1   : {<<0, 0>>, <<20, 0>>},
     r2   : Ranges,
     vol  : {0, 1000},
     gap  : {"none", "mid", "last"}]

\* Paths that do not: every price field is p0 on every bar.
Flat ==
    [len  : Lens,
     p0   : {1, 2500, 10000},
     s1   : {0},
     s2   : {0},
     back : {3},
     r1   : {<<0, 0>>},
     r2   : {<<0, 0>>},
     vol  : {0, 1000},
     gap  : {"none", "mid"}]

Shapes == Moving \cup Flat

Frame(p) ==
    LET k      == p.len - p.back
        c(i)   == p.p0 + p.s1 * Min(i, k) + p.s2 * Max(0, i - k)
        r(i)   == IF i <= k THEN p.r1 ELSE p.r2
        gone(i) == \/ p.gap = "mid" /\ i = k
                   \/ p.gap = "last" /\ i = p.len
    IN  [Close  |-> [i \in 1..p.len |-> IF gone(i) THEN NaN ELSE c(i)],
         High   |-> [i \in 1..p.len |-> IF gone(i) THEN NaN ELSE c(i) + r(i)[1]],
         Low    |-> [i \in 1..p.len |-> IF gone(i) THEN NaN ELSE c(i) - r(i)[2]],
         Volume |-> [i \in 1..p.len |-> IF gone(i) THEN NaN ELSE p.vol]]

NoFrame == [Close |-> <<>>, High |-> <<>>, Low |-> <<>>, Volume |-> <<>>]

-----------------------------------------------------------------------------
(* Specification of the pipeline: a frame is chosen, the function is applied *)

CalcIdle ==
    /\ res = [df |-> NoFrame, err |-> None]
    /\ called = FALSE

ScanIdle ==
    /\ summary = [ret |-> None]
    /\ scanned = FALSE

InitCalc ==
    /\ \E p \in Shapes : df = Frame(p)
    /\ CalcIdle
    /\ data = [ok |-> FALSE, frames |-> <<>>]
    /\ ScanIdle
    /\ SnapIdle

CalcIndicators ==
    /\ ~called
    /\ res' = calculate_technical_indicators(df)
    /\ called' = TRUE
    /\ UNCHANGED <<df, scanVars, snapVars>>

NextCalc == CalcIndicators

SpecCalc == InitCalc /\ [][NextCalc]_vars

-----------------------------------------------------------------------------
(* scan_market_summary, lines 142-172 *)

\* The tickers of the batch, three of TARGET_TICKERS (lines 41-45).
ScanTickers == <<"AAPL", "NVDA", "TSLA">>

\* Line 163, the suffix of the display name (CJK literals in the source).
flow_status(c) ==
    IF Gt(c, 500) THEN " (flow in)" ELSE IF Lt(c, -500) THEN " (flow out)" ELSE ""

\* Lines 166-168: the bucket of a last-bar Signal.
bucket(sig) == IF sig = "BUY" THEN "BUY" ELSE IF sig = "SELL" THEN "SELL" ELSE "HOLD"

\* Lines 153-154: a last row whose Close is missing is dropped.
drop_open_bar(d) ==
    LET n == Len(d.Close)
    IN  IF n > 0 /\ d.Close[n] = NaN
        THEN [c \in DOMAIN d |-> SubSeq(d[c], 1, n - 1)]
        ELSE d

\* Lines 153-168, for a ticker the download holds.
scan_found(t, frames, sum) ==
    IF "Close" \notin DOMAIN frames[t] THEN sum        \* KeyError at line 154
    ELSE LET df_t == drop_open_bar(frames[t])
         IN  IF Len(df_t.Close) = 0 THEN sum            \* line 155
             ELSE LET r == calculate_technical_indicators(df_t)
                  IN  IF r.err # None THEN sum          \* line 158
                      ELSE LET n    == Len(r.df.Close)
                               disp == t \o flow_status(r.df.CMF[n])
                               b    == bucket(r.df.Signal[n])
                           IN  [sum EXCEPT ![b] = Append(@, disp)]

\* A plausible slip: the lookup of a ticker the download does not hold is
\* made outside the inner try, so the KeyError reaches the outer handler of
\* line 171 and the batch returns None.
scan_ticker_abort(t, frames, sum) ==
    IF t \notin DOMAIN frames THEN [ret |-> None]
    ELSE scan_found(t, frames, sum)

\* Lines 151-169, one turn of the loop: any exception and any `continue`
\* leaves the summary as it was.
scan_ticker(t, frames, sum) ==
    IF t \notin DOMAIN frames THEN sum                 \* KeyError at line 152
    ELSE scan_found(t, frames, sum)

RECURSIVE scan_from(_, _, _, _)
scan_from(tickers, frames, i, sum) ==
    IF i > Len(tickers) \/ sum.ret = None THEN sum
    ELSE scan_from(tickers, frames, i + 1, scan_ticker(tickers[i], frames, sum))

scan_market_summary(tickers, d) ==
    IF ~d.ok THEN [ret |-> None]                        \* line 171
    ELSE scan_from(tickers, d.frames, 1,
            [ret |-> "summary", BUY |-> <<>>, HOLD |-> <<>>, SELL |-> <<>>])

\* What the download may hold for one ticker.
EmptyFrame == NoFrame
OpenBarOnly == [Close |-> <<NaN>>, High |-> <<NaN>>, Low |-> <<NaN>>, Volume |-> <<NaN>>]
NoCloseColumn == [High |-> <<10000>>, Low |-> <<10000>>, Volume |-> <<1000>>]

ScanShape(len, s2, r2, gap) ==
    [len |-> len, p0 |-> 10000, s1 |-> 0, s2 |-> s2, back |-> 3,
     r1 |-> <<0, 0>>, r2 |-> r2, vol |-> 1000, gap |-> gap]

ScanFrames ==
    {EmptyFrame, OpenBarOnly, NoCloseColumn,
     Frame(ScanShape(MIN_BARS - 1, 60, <<0, 20>>, "none")),
     Frame(ScanShape(MIN_BARS, 0, <<0, 0>>, "last")),
     Frame(ScanShape(MaxLen, 60, <<0, 20>>, "none")),
     Frame(ScanShape(MaxLen, 0, <<0, 0>>, "none")),
     Frame(ScanShape(MaxLen, -60, <<20, 0>>, "none"))}

Range(f) == {f[i] : i \in DOMAIN f}

InitScan ==
    /\ \/ data = [ok |-> FALSE, frames |-> <<>>]
       \/ \E D \in SUBSET Range(ScanTickers) :
            \E fr \in [D -> ScanFrames] : data = [ok |-> TRUE, frames |-> fr]
    /\ ScanIdle
    /\ df = NoFrame
    /\ CalcIdle
    /\ SnapIdle

ScanMarket ==
    /\ ~scanned
    /\ summary' = scan_market_summary(ScanTickers, data)
    /\ scanned' = TRUE
    /\ UNCHANGED <<data, calcVars, snapVars>>

NextScan == ScanMarket

SpecScan == InitScan /\ [][NextScan]_vars

-----------------------------------------------------------------------------
(* Specification of the page script *)

\* A record left by an earlier day.
OldRecord ==
    [present |-> TRUE, date |-> -1, timestamp |-> <<-1, 15, 55>>,
     close_price |-> 100, flow_data |-> "flow"]

\* The page is opened on any day of the week (0 is Monday), on a server in
\* either zone, with no snapshot file or with one of an earlier day.
InitSeq ==
    /\ \E w \in 0..6 :
        clock = [day |-> 0, wd |-> w, hour |-> Times[1][1], minute |-> Times[1][2]]
    /\ tz \in TzOffsets
    /\ \/ file = [state |-> "absent", data |-> NoRecords]
       \/ file = [state |-> "json", data |-> [NoRecords EXCEPT !["AAPL"] = OldRecord]]
    /\ pc = [s \in Sessions |-> "idle"]
    /\ NoLocals
    /\ renders = 0
    /\ saves = [k \in SnapTickers \X (0..MaxDay) |-> 0]
    /\ df = NoFrame
    /\ CalcIdle
    /\ data = [ok |-> FALSE, frames |-> <<>>]
    /\ ScanIdle

\* The same, opened on a Friday.
InitSnap == InitSeq /\ clock.wd = 4

TimeIndex(c) == CHOOSE i \in 1..Len(Times) : Times[i] = <<c.hour, c.minute>>

\* Time passes: to the next instant of the day, or, between script runs, to
\* the first instant of the next day.
Tick ==
    /\ LET i == TimeIndex(clock)
       IN  \/ /\ i < Len(Times)
              /\ clock' = [clock EXCEPT !.hour = Times[i + 1][1],
                                        !.minute = Times[i + 1][2]]
           \/ /\ i = Len(Times)
              /\ clock.day < MaxDay
              /\ \A s \in Sessions : pc[s] = "idle"
              /\ clock' = [day |-> clock.day + 1, wd |-> (clock.wd + 1) % 7,
                           hour |-> Times[1][1], minute |-> Times[1][2]]
    /\ UNCHANGED <<tz, file, sessVars, calcVars, scanVars>>

Goto(s, label) == pc' = [pc EXCEPT ![s] = label]

\* The run of session s ends (it sleeps and reruns, lines 318-325).
EndRun(s) ==
    /\ pc' = [pc EXCEPT ![s] = "idle"]
    /\ now_est' = [now_est EXCEPT ![s] = NoTime]
    /\ is_market_open' = [is_market_open EXCEPT ![s] = FALSE]
    /\ is_closing_window' = [is_closing_window EXCEPT ![s] = FALSE]
    /\ status_text' = [status_text EXCEPT ![s] = ""]
    /\ selected_ticker' = [selected_ticker EXCEPT ![s] = "NVDA"]
    /\ error' = [error EXCEPT ![s] = None]
    /\ last_close' = [last_close EXCEPT ![s] = 0]
    /\ saved' = [saved EXCEPT ![s] = Absent]
    /\ record' = [record EXCEPT ![s] = Absent]
    /\ all_data' = [all_data EXCEPT ![s] = NoRecords]
    /\ pre_file' = [pre_file EXCEPT ![s] = NoRecords]

\* Lines 178-203: a script run starts, reads the clock, sets the status
\* flags and the caption, takes the selected ticker and its analysis.
RenderStart(s) ==
    /\ pc[s] = "idle"
    /\ renders < MaxRenders
    /\ renders' = renders + 1
    /\ now_est' = [now_est EXCEPT ![s] = clock]
    /\ is_market_open' = [is_market_open EXCEPT ![s] = market_open(clock)]
    /\ is_closing_window' = [is_closing_window EXCEPT ![s] = closing_window(clock)]
    /\ status_text' = [status_text EXCEPT ![s] =
                        status_of(closing_window(clock), market_open(clock))]
    /\ \E t \in SnapTickers : selected_ticker' = [selected_ticker EXCEPT ![s] = t]
    /\ \/ /\ error' = [error EXCEPT ![s] = ERR_INSUFFICIENT]
          /\ last_close' = [last_close EXCEPT ![s] = 0]
       \/ /\ error' = [error EXCEPT ![s] = None]
          /\ \E p \in Closes : last_close' = [last_close EXCEPT ![s] = p]
    /\ Goto(s, "auto_save")
    /\ UNCHANGED <<clock, tz, file, saved, record, all_data, pre_file, saves,
                   calcVars, scanVars>>

\* Lines 205-213: with an error nothing is saved; flow_data is a non-empty
\* dict whenever there is no error, so the block is entered exactly in the
\* closing window.
AutoSave(s) ==
    /\ pc[s] = "auto_save"
    /\ IF error[s] = None /\ is_closing_window[s]
       THEN Goto(s, "load") /\ UNCHANGED locals
       ELSE EndRun(s)
    /\ UNCHANGED <<clock, tz, file, renders, saves, calcVars, scanVars>>

\* Line 214.
Load(s) ==
    /\ pc[s] = "load"
    /\ saved' = [saved EXCEPT ![s] = load_snapshot(file, selected_ticker[s])]
    /\ Goto(s, "guard")
    /\ UNCHANGED <<clock, tz, file, now_est, is_market_open, is_closing_window,
                   status_text, selected_ticker, error, last_close, record, all_data,
                   renders, pre_file, saves, calcVars, scanVars>>

\* Line 215: save_snapshot is called, or the run ends.
Guard(s) ==
    /\ pc[s] = "guard"
    /\ IF guard_passes(saved[s], file, selected_ticker[s], now_est[s])
       THEN /\ Goto(s, "save_read")
            /\ saves' = [saves EXCEPT ![<<selected_ticker[s], now_est[s].day>>] = @ + 1]
            /\ UNCHANGED locals
       ELSE /\ EndRun(s)
            /\ saves' = saves
    /\ UNCHANGED <<clock, tz, file, renders, calcVars, scanVars>>

\* Lines 56-66: save_snapshot builds the record and reads the whole file.
SaveRead(s) ==
    /\ pc[s] = "save_read"
    /\ record' = [record EXCEPT ![s] = new_record(clock, tz, last_close[s])]
    /\ all_data' = [all_data EXCEPT ![s] = read_all(file)]
    /\ pre_file' = [pre_file EXCEPT ![s] =
                     [t \in SnapTickers |-> load_snapshot(file, t)]]
    /\ Goto(s, "save_open")
    /\ UNCHANGED <<clock, tz, file, now_est, is_market_open, is_closing_window,
                   status_text, selected_ticker, error, last_close, saved, renders,
                   saves, calcVars, scanVars>>

\* Line 68, open(SNAPSHOT_FILE, 'w'): the file is truncated.
SaveOpen(s) ==
    /\ pc[s] = "save_open"
    /\ file' = [state |-> "empty", data |-> NoRecords]
    /\ Goto(s, "save_dump")
    /\ UNCHANGED <<clock, tz, locals, renders, saves, calcVars, scanVars>>

\* Line 68, json.dump and the closing of the file; the run leaves the block.
SaveDump(s) ==
    /\ pc[s] = "save_dump"
    /\ file' = [state |-> "json",
                data  |-> dumped(all_data[s], selected_ticker[s], record[s])]
    /\ EndRun(s)
    /\ UNCHANGED <<clock, tz, renders, saves, calcVars, scanVars>>

Step(s) ==
    \/ RenderStart(s)
    \/ AutoSave(s)
    \/ Load(s)
    \/ Guard(s)
    \/ SaveRead(s)
    \/ SaveOpen(s)
    \/ SaveDump(s)

\* Two sessions, their steps interleaved.
NextSnap == Tick \/ \E s \in Sessions : Step(s)

SpecSnap == InitSnap /\ [][NextSnap]_vars

\* One session: its script runs follow one another.
NextSeq == Tick \/ Step("s1")

SpecSeq == InitSeq /\ [][NextSeq]_vars

-----------------------------------------------------------------------------
(* Claims about calculate_technical_indicators *)

Returned == called /\ res.err = None
Bars == 1..Len(res.df.Close)

\* The rules of lines 101-111, read off the returned columns.
BuyRule(i) ==
    LET d == res.df
    IN  /\ Gt(d.Close[i], d.EMA_8[i])
        /\ Gt(d.EMA_8[i], d.EMA_21[i])
        /\ Gt(d.MACD_Hist[i], 0)
        /\ i > 1 /\ Gt(d.MACD_Hist[i], d.MACD_Hist[i - 1])
        /\ Gt(d.CMF[i], -500)

SellRule(i) ==
    LET d == res.df
    IN  \/ Lt(d.Close[i], d.EMA_21[i])
        \/ Lt(d.MACD_Hist[i], 0)
        \/ Lt(d.CMF[i], -2000)

C3_InsufficientData ==
    called =>
        /\ (res.err = ERR_INSUFFICIENT) <=> (Len(df.Close) < 50)
        /\ res.err = ERR_INSUFFICIENT => res.df = df
        /\ res.err # ERR_INSUFFICIENT =>
            /\ res.err = None
            /\ "Signal" \in DOMAIN res.df
            /\ Len(res.df.Signal) = Len(df.Close)
            /\ \A i \in Bars : res.df.Signal[i] \in {"BUY", "HOLD", "SELL"}

\* A series of 49 bars refused, with no column added.
C3_Witness ==
    /\ called
    /\ Len(df.Close) = 49
    /\ res.err = ERR_INSUFFICIENT
    /\ DOMAIN res.df = {"Close", "High", "Low", "Volume"}

IsFlat(d) ==
    /\ Len(d.Close) > 0
    /\ d.Close[1] # NaN
    /\ \A i \in 1..Len(d.Close) :
        /\ d.Close[i] = d.Close[1]
        /\ d.High[i] = d.Close[1]
        /\ d.Low[i] = d.Close[1]
        /\ d.Volume[i] = d.Volume[1]

\* C8: a flat series (every price field one constant, constant volume) of 50
\* bars or more, 60 among them, is accepted and its latest bar is HOLD, with
\* Close = EMA_8 = EMA_21, MACD_Hist = 0 and CMF zero or undefined.
C8_FlatIsHold ==
    (called /\ IsFlat(df) /\ Len(df.Close) >= 50) =>
        LET d == res.df
            n == Len(df.Close)
        IN  /\ res.err = None
            /\ d.Signal[n] = "HOLD"
            /\ d.EMA_8[n] = d.Close[n]
            /\ d.EMA_21[n] = d.Close[n]
            /\ d.MACD_Hist[n] = 0
            /\ d.CMF[n] \in {0, NaN}

\* The flat series of 60 bars at 10000 with volume 1000, labelled HOLD.
C8_Witness ==
    /\ called
    /\ IsFlat(df)
    /\ Len(df.Close) = 60
    /\ df.Close[1] = 10000
    /\ df.Volume[1] = 1000
    /\ res.df.Signal[60] = "HOLD"
    /\ res.df.CMF[60] = 0

\* C9: no bar satisfies both the BUY conjunction and the SELL disjunction,
\* a bar is labelled BUY exactly when the BUY conjunction holds, and a bar
\* whose indicators are undefined satisfies neither rule.
C9_BuySellExclusive ==
    Returned => \A i \in Bars :
        /\ ~(BuyRule(i) /\ SellRule(i))
        /\ (res.df.Signal[i] = "BUY") <=> BuyRule(i)
        /\ NaN \in {res.df.EMA_8[i], res.df.EMA_21[i], res.df.MACD_Hist[i], res.df.CMF[i]}
            => res.df.Signal[i] # "BUY"
        /\ (res.df.EMA_21[i] = NaN /\ res.df.MACD_Hist[i] = NaN /\ res.df.CMF[i] = NaN)
            => res.df.Signal[i] = "HOLD"

\* A bar labelled BUY, and a bar of undefined indicators labelled HOLD.
C9_Witness ==
    /\ Returned
    /\ \E i \in Bars : BuyRule(i) /\ res.df.Signal[i] = "BUY"
    /\ res.df.EMA_21[1] = NaN /\ res.df.Signal[1] = "HOLD"

-----------------------------------------------------------------------------
(* Claims about scan_market_summary *)

\* The display names a ticker can have in a bucket.
Shown(t) == {t, t \o " (flow in)", t \o " (flow out)"}

InBucket(t, b) == Cardinality({i \in 1..Len(summary[b]) : summary[b][i] \in Shown(t)})

\* The frame of t that reaches the pipeline, and whether t fails before a
\* label: no data for it, no Close column, no row, or fewer than 50 rows.
Reaches(t) == drop_open_bar(data.frames[t])

Fails(t) ==
    \/ t \notin DOMAIN data.frames
    \/ "Close" \notin DOMAIN data.frames[t]
    \/ Len(Reaches(t).Close) < 50

LastSignal(t) ==
    LET r == calculate_technical_indicators(Reaches(t))
    IN  r.df.Signal[Len(r.df.Signal)]

\* C4: when the download itself succeeds, the batch returns a summary; a
\* failing ticker is in no bucket, and every other ticker is once in the
\* bucket of its last bar's Signal and in no other.
C4_BatchIsolation ==
    (scanned /\ data.ok) =>
        /\ summary.ret = "summary"
        /\ \A t \in Range(ScanTickers) :
            IF Fails(t)
            THEN \A b \in {"BUY", "HOLD", "SELL"} : InBucket(t, b) = 0
            ELSE \A b \in {"BUY", "HOLD", "SELL"} :
                    InBucket(t, b) = IF b = LastSignal(t) THEN 1 ELSE 0

\* One ticker without data, one refused for too few bars, and the third in
\* the SELL bucket.
C4_Witness ==
    /\ scanned /\ data.ok
    /\ "AAPL" \notin DOMAIN data.frames
    /\ "NVDA" \in DOMAIN data.frames
    /\ "Close" \in DOMAIN data.frames["NVDA"]
    /\ Len(data.frames["NVDA"].Close) = 49
    /\ summary.BUY = <<>> /\ summary.HOLD = <<>>
    /\ summary.SELL = <<"TSLA (flow out)">>

-----------------------------------------------------------------------------
(* Claims about the page script and the snapshot file *)

InSave(s) == pc[s] \in {"save_read", "save_open", "save_dump"}

\* C2: for every ticker and trading date, the script runs of one session
\* call save_snapshot at most once.
C2_SavedOncePerDate ==
    \A k \in DOMAIN saves : saves[k] <= 1

\* Two calls of save_snapshot for one ticker and one Eastern date, on a server
\* thirteen hours ahead of US/Eastern: the record carries the next day's date.
C2_Failure ==
    /\ tz = 13
    /\ \E t \in SnapTickers :
        /\ saves[<<t, clock.day>>] = 2
        /\ file.state = "json"
        /\ file.data[t].present
        /\ file.data[t].date = clock.day + 1

\* C5: save_snapshot is called only in a run that read a US/Eastern time on
\* a Monday to Friday within 15:55-15:59 and whose analysis succeeded.
C5_SavedOnlyAtTradingClose ==
    \A s \in Sessions :
        InSave(s) =>
            /\ now_est[s].wd < 5
            /\ now_est[s].hour = 15 /\ now_est[s].minute >= 55
            /\ error[s] = None

\* save_snapshot entered on a Saturday at 15:55 US/Eastern.
C5_Failure ==
    /\ InSave("s1")
    /\ now_est["s1"].wd = 5
    /\ now_est["s1"].hour = 15 /\ now_est["s1"].minute = 55
    /\ error["s1"] = None

\* C6: when save_snapshot(t, ...) has written, every other ticker that had a
\* record when the call was entered has that same record, and t has the new
\* record.
C6_OtherRecordsKept ==
    [][\A s \in Sessions :
        (pc[s] = "save_dump" /\ pc'[s] = "idle") =>
            /\ file'.state = "json"
            /\ file'.data[selected_ticker[s]] = record[s]
            /\ \A t \in SnapTickers \ {selected_ticker[s]} :
                pre_file[s][t].present => file'.data[t] = pre_file[s][t]]_vars

\* The record of an earlier day for AAPL, unchanged beside a new record for NVDA.
C6_Witness ==
    /\ file.state = "json"
    /\ file.data["AAPL"] = OldRecord
    /\ file.data["NVDA"].present
    /\ \A s \in Sessions : ~InSave(s)

\* C7: the date guard of a session decides on the record that session read,
\* whatever the file holds by then; so two sessions that both read before
\* either writes both call save_snapshot.
C7_GuardDecidesOnOwnRead ==
    [][\A s \in Sessions :
        (pc[s] = "guard" /\ pc'[s] # "guard") =>
            (pc'[s] = "save_read" <=>
                (~saved[s].present \/ saved[s].date # now_est[s].day))]_vars

\* Both sessions inside save_snapshot for one ticker and one date, neither
\* having written yet, on a server whose local date is the Eastern date.
C7_Witness ==
    /\ tz = 0
    /\ pc["s1"] = "save_read" /\ pc["s2"] = "save_read"
    /\ selected_ticker["s1"] = selected_ticker["s2"]
    /\ now_est["s1"].day = now_est["s2"].day
    /\ saves[<<selected_ticker["s1"], now_est["s1"].day>>] = 2

\* C10: is_market_open only on Monday to Friday, and the caption is the
\* closing-save one only in the closing window, the open one only when the
\* market is open outside it, the closed one otherwise.
C10_StatusMatchesCalendar ==
    \A s \in Sessions :
        pc[s] # "idle" =>
            /\ is_market_open[s] => now_est[s].wd < 5
            /\ status_text[s] = "closing save" <=> is_closing_window[s]
            /\ status_text[s] = "market open" <=>
                (is_market_open[s] /\ ~is_closing_window[s])
            /\ status_text[s] = "market closed" <=>
                (~is_market_open[s] /\ ~is_closing_window[s])

\* A run on a Saturday at 16:00 US/Eastern with is_market_open set and the
\* open caption shown.
C10_Failure ==
    /\ pc["s1"] # "idle"
    /\ now_est["s1"].wd = 5
    /\ now_est["s1"].hour = 16 /\ now_est["s1"].minute = 0
    /\ is_market_open["s1"]
    /\ status_text["s1"] = "market open"

=============================================================================
